---- MODULE Spec2Model ----
(***************************************************************************)
(* Model of stlcgpp/utils.py: the smooth extremum family (maxish, minish   *)
(* and their softmax / logsumexp helpers) and the formula-channel          *)
(* separators (separate_and, separate_or).                                 *)
(*                                                                         *)
(* Every function of the file is pure.  A state holds one call (the        *)
(* function and its arguments), the position of that call (ready / done),  *)
(* what the call returned or raised, and the evaluations of external       *)
(* formula nodes the call made, in order.                                  *)
(*                                                                         *)
(* Numbers.  A signal is a float32 tensor whose elements are small        *)
(* integers or +-Huge, the finite float 3e38.  A float temperature is      *)
(* k * ln 2 for a positive integer k, so that exp(temperature * x) is the  *)
(* exact rational 2^(k*x) for a small integer x, softmax weights are exact *)
(* rationals and logsumexp(temperature * x) / temperature is               *)
(* log2(sum 2^(k*x_i)) / k, which is kept in that symbolic form.  A        *)
(* product or sum beyond the float32 range (3.4028e38) is +-inf, inf - inf *)
(* is nan, and a small number added to a huge one is absorbed, as in IEEE  *)
(* arithmetic; rounding in the last place is not represented.              *)
(***************************************************************************)
EXTENDS Integers, Sequences, FiniteSets, TLC

VARIABLES pc, call, result, log

vars == <<pc, call, result, log>>

\* ------------------------------------------------------------------ bounds
MaxLen == 3
MaxVal == 1
MaxTemp == 2
MaxLeaves == 3
MaxTuple == 3
MaxSignal == 7

\* ------------------------------------------------------- python values
PyInt(n) == [ty |-> "int", v |-> n]
PyBool(b) == [ty |-> "bool", v |-> IF b THEN 1 ELSE 0]
PyFloat(k) == [ty |-> "float", v |-> k]
None == [ty |-> "NoneType"]

Return(x) == [status |-> "return", value |-> x]
Raise(e) == [status |-> "raise", exc |-> e]

\* ------------------------------------------------------------- numbers
RECURSIVE GCD(_, _)
GCD(a, b) == IF b = 0 THEN a ELSE GCD(b, a % b)

Abs(a) == IF a < 0 THEN -a ELSE a

RECURSIVE Pow2(_)
Pow2(e) == IF e = 0 THEN 1 ELSE 2 * Pow2(e - 1)

\* A float.  kind "rat": n/d.  kind "ln2": (n/d) * ln 2.
\* kind "huge": (n/d) * 3e38.  kind "ln2huge": (n/d) * ln 2 * 3e38.
\* kind "inf": +inf (n = 1) or -inf (n = -1).  kind "nan".
\* kind "log": (-1)^neg * ln(n/d).  kind "log2": (-1)^neg * log2(n/d) / t.
\* kind "exp": not representable (e raised to a non-zero rational).
Real(kind, n, d, t, neg) == [kind |-> kind, n |-> n, d |-> d, t |-> t, neg |-> neg]

Rat(n, d) ==
    LET g == GCD(Abs(n), Abs(d))
        s == IF d < 0 THEN -1 ELSE 1
    IN  Real("rat", s * (n \div g), s * (d \div g), 1, 0)

Unrepresentable == Real("exp", 0, 1, 1, 0)

\* (n/d) * 3e38
Huge(n, d) == [Rat(n, d) EXCEPT !.kind = "huge"]

Inf(sign) == Real("inf", sign, 1, 1, 0)

NaN == Real("nan", 0, 1, 1, 0)

Sign(n) == IF n < 0 THEN -1 ELSE 1

RAdd(a, b) ==
    LET l == (a.d * b.d) \div GCD(a.d, b.d)
    IN  Rat(a.n * (l \div a.d) + b.n * (l \div b.d), l)

RMul(a, b) == Rat(a.n * b.n, a.d * b.d)

RDiv(a, b) == Rat(a.n * b.d, a.d * b.n)

RLeq(a, b) == a.n * b.d <= b.n * a.d

\* where a finite float lies: below, among or above the small numbers
Class(a) == IF a.kind \in {"huge", "ln2huge"} THEN Sign(a.n) ELSE 0

\* a <= b for two finite floats of kind "rat" or "huge"
FLeq(a, b) == IF Class(a) # Class(b) THEN Class(a) < Class(b) ELSE RLeq(a, b)

\* a + b in float32: nan and inf propagate, inf - inf is nan, a small number
\* is absorbed by a huge one, a sum beyond 3.4028e38 = 1.1343 * 3e38 is inf
FAdd(a, b) ==
    IF a.kind = "exp" \/ b.kind = "exp" THEN Unrepresentable
    ELSE IF a.kind = "nan" \/ b.kind = "nan" THEN NaN
    ELSE IF a.kind = "inf" /\ b.kind = "inf" THEN (IF a.n = b.n THEN a ELSE NaN)
    ELSE IF a.kind = "inf" THEN a
    ELSE IF b.kind = "inf" THEN b
    ELSE IF a.kind = "rat" /\ b.kind = "rat" THEN RAdd(a, b)
    ELSE IF a.kind = "huge" /\ b.kind = "rat" THEN a
    ELSE IF a.kind = "rat" /\ b.kind = "huge" THEN b
    ELSE IF a.kind = "huge" /\ b.kind = "huge"
    THEN LET c == RAdd(a, b)
         IN  IF c.n = 0 THEN c
             ELSE IF Abs(c.n) * 10000 > 11343 * c.d THEN Inf(Sign(c.n))
             ELSE Huge(c.n, c.d)
    ELSE Unrepresentable

\* a * b in float32 for a weight a in [0, 1] and a signal element b
FMul(a, b) ==
    IF a.kind = "nan" \/ b.kind = "nan" THEN NaN
    ELSE IF a.kind = "rat" /\ b.kind = "rat" THEN RMul(a, b)
    ELSE IF a.kind = "rat" /\ b.kind = "huge" /\ Abs(a.n) <= a.d
    THEN (IF a.n = 0 THEN Rat(0, 1) ELSE Huge(a.n * b.n, a.d * b.d))
    ELSE Unrepresentable

\* unary minus on a number
RNeg(a) ==
    IF a.kind \in {"rat", "ln2", "huge", "ln2huge", "inf"} THEN [a EXCEPT !.n = -a.n]
    ELSE IF a.kind \in {"log", "log2"} THEN [a EXCEPT !.neg = 1 - a.neg]
    ELSE a

\* exp of a number: 2^(n) for n * ln 2, 1 for 0
RExp(a) ==
    IF a.kind = "ln2" /\ a.d = 1
    THEN IF a.n >= 0 THEN Rat(Pow2(a.n), 1) ELSE Rat(1, Pow2(-a.n))
    ELSE IF a.kind = "rat" /\ a.n = 0 THEN Rat(1, 1)
    ELSE Unrepresentable

\* natural logarithm of a positive rational
RLog(a) == IF a.kind = "rat" /\ a.n > 0 THEN Real("log", a.n, a.d, 1, 0) ELSE Unrepresentable

\* scalar * number in float32, the scalar a python float (k * ln 2), int or
\* bool.  k * ln 2 * (n/d) * 3e38 is beyond 3.4028e38 when k * |n/d| > 1.6364,
\* v * (n/d) * 3e38 when |v * n/d| > 1.1343: the product is then +-inf.
RScale(s, a) ==
    IF a.kind = "rat"
    THEN IF s.ty = "float" THEN [Rat(s.v * a.n, a.d) EXCEPT !.kind = "ln2"]
         ELSE Rat(s.v * a.n, a.d)
    ELSE IF a.kind = "huge" /\ s.ty = "float"
    THEN IF s.v * Abs(a.n) * 10000 > 16364 * a.d THEN Inf(Sign(a.n))
         ELSE [Huge(s.v * a.n, a.d) EXCEPT !.kind = "ln2huge"]
    ELSE IF a.kind = "huge"
    THEN IF s.v = 0 THEN Rat(0, 1)
         ELSE IF Abs(s.v * a.n) * 10000 > 11343 * a.d THEN Inf(Sign(s.v * a.n))
         ELSE Huge(s.v * a.n, a.d)
    ELSE Unrepresentable

\* number / scalar in float32
RUnscale(a, s) ==
    IF a.kind = "nan" THEN NaN
    ELSE IF a.kind = "inf" /\ s.v > 0 THEN a
    ELSE IF a.kind = "log" /\ s.ty = "float" THEN Real("log2", a.n, a.d, s.v, a.neg)
    ELSE IF a.kind = "ln2huge" /\ s.ty = "float" THEN Huge(a.n, a.d * s.v)
    ELSE IF a.kind = "rat" /\ s.ty # "float" /\ s.v # 0 THEN Rat(a.n, a.d * s.v)
    ELSE Unrepresentable

\* ------------------------------------------------------------- tensors
\* A tensor of rank 0 or 1: its shape and its elements in order.
Tensor(shape, data) == [ty |-> "Tensor", shape |-> shape, data |-> data]

IsTensor(x) == x.ty = "Tensor"

\* -tensor
TNeg(t) == Tensor(t.shape, [i \in 1..Len(t.data) |-> RNeg(t.data[i])])

\* scalar * tensor
TScale(s, t) == Tensor(t.shape, [i \in 1..Len(t.data) |-> RScale(s, t.data[i])])

\* tensor / scalar
TUnscale(t, s) == Tensor(t.shape, [i \in 1..Len(t.data) |-> RUnscale(t.data[i], s)])

\* tensor * tensor, elementwise, equal shapes
TMul(a, b) ==
    Tensor(a.shape, [i \in 1..Len(a.data) |-> FMul(a.data[i], b.data[i])])

RECURSIVE SumSeq(_)
SumSeq(s) == IF Len(s) = 1 THEN s[1] ELSE FAdd(s[1], SumSeq(Tail(s)))

RECURSIVE MaxSeq(_)
MaxSeq(s) ==
    IF Len(s) = 1 THEN s[1]
    ELSE LET m == MaxSeq(Tail(s)) IN IF FLeq(m, s[1]) THEN s[1] ELSE m

\* The runtime's softmax and logsumexp subtract the greatest element before
\* exp.  Dominant(data) are the positions that keep a non-zero exp(x - max):
\* the greatest huge elements when there is a positive one, else the small
\* elements, else the greatest of the negative huge ones; exp underflows to
\* 0 everywhere else.
Greatest(data, I) == {i \in I : \A j \in I : RLeq(data[j], data[i])}

Dominant(data) ==
    LET I == 1..Len(data)
        top == {i \in I : data[i].kind = "ln2huge" /\ data[i].n > 0}
        small == {i \in I : data[i].kind \in {"ln2", "rat"}}
        low == {i \in I : data[i].kind = "ln2huge" /\ data[i].n < 0}
    IN  IF top # {} THEN Greatest(data, top)
        ELSE IF small # {} THEN small
        ELSE Greatest(data, low)

\* max - max is nan when the greatest element is +inf, or -inf (all are -inf)
ShiftIsNaN(data) ==
    \/ \E i \in 1..Len(data) : data[i].kind = "nan"
    \/ \E i \in 1..Len(data) : data[i].kind = "inf" /\ data[i].n > 0
    \/ \A i \in 1..Len(data) : data[i].kind = "inf"

\* exp(x_i - max) for every position
ShiftedExp(data) ==
    [i \in 1..Len(data) |->
        IF i \notin Dominant(data) THEN Rat(0, 1)
        ELSE IF data[i].kind = "ln2huge" THEN Rat(1, 1)
        ELSE RExp(data[i])]

\* the runtime's check of a dim argument against a tensor of rank 1:
\* a python int (not a bool, not a float) in [-1, 0]
DimError(t, dim) ==
    IF dim.ty # "int" THEN "TypeError"
    ELSE IF dim.v \notin {-1, 0} THEN "IndexError"
    ELSE "none"

\* the runtime's check of a keepdim argument: a python bool
KeepdimError(keepdim) == IF keepdim.ty # "bool" THEN "TypeError" ELSE "none"

Reduced(keepdim, x) == Tensor(IF keepdim.v = 1 THEN <<1>> ELSE <<>>, <<x>>)

\* torch.nn.functional.softmax(t, dim=dim)
Softmax(t, dim) ==
    IF DimError(t, dim) # "none" THEN Raise(DimError(t, dim))
    ELSE IF ShiftIsNaN(t.data)
    THEN Return(Tensor(t.shape, [i \in 1..Len(t.data) |-> NaN]))
    ELSE LET e == ShiftedExp(t.data)
             s == SumSeq(e)
         IN  Return(Tensor(t.shape, [i \in 1..Len(e) |->
                 IF s.kind = "rat" /\ e[i].kind = "rat" THEN RDiv(e[i], s)
                 ELSE Unrepresentable]))

\* t.sum(dim=dim, keepdim=keepdim)
Sum(t, dim, keepdim) ==
    IF KeepdimError(keepdim) # "none" THEN Raise(KeepdimError(keepdim))
    ELSE IF DimError(t, dim) # "none" THEN Raise(DimError(t, dim))
    ELSE Return(Reduced(keepdim, SumSeq(t.data)))

\* torch.logsumexp(t, dim=dim, keepdim=keepdim)
Logsumexp(t, dim, keepdim) ==
    IF KeepdimError(keepdim) # "none" THEN Raise(KeepdimError(keepdim))
    ELSE IF DimError(t, dim) # "none" THEN Raise(DimError(t, dim))
    ELSE LET data == t.data
             I == 1..Len(data)
             d == Dominant(data)
         IN  Return(Reduced(keepdim,
                 IF \E i \in I : data[i].kind = "nan" THEN NaN
                 ELSE IF \E i \in I : data[i].kind = "inf" /\ data[i].n > 0 THEN Inf(1)
                 ELSE IF \A i \in I : data[i].kind = "inf" THEN Inf(-1)
                 ELSE IF \E i \in d : data[i].kind = "ln2huge"
                 THEN data[CHOOSE i \in d : TRUE]
                 ELSE RLog(SumSeq(ShiftedExp(data)))))

\* torch.max(t, dim=dim, keepdim=keepdim)[0]
TorchMax(t, dim, keepdim) ==
    IF KeepdimError(keepdim) # "none" THEN Raise(KeepdimError(keepdim))
    ELSE IF DimError(t, dim) # "none" THEN Raise(DimError(t, dim))
    ELSE Return(Reduced(keepdim, MaxSeq(t.data)))

\* python's unary minus on what a call returned: a tensor is negated,
\* None has no unary minus, an exception propagates
NegResult(r) ==
    IF r.status = "raise" THEN r
    ELSE IF IsTensor(r.value) THEN Return(TNeg(r.value))
    ELSE Raise("TypeError")

\* ------------------------------------------------ smooth extremum family
maxish_softmax(signal, dim, keepdim, temperature) ==
    LET w == Softmax(TScale(temperature, signal), dim)
    IN  IF w.status = "raise" THEN w
        ELSE Sum(TMul(w.value, signal), dim, keepdim)

\* the helper calls maxish_softmax positionally, in the order
\* (signal, temperature, dim, keepdim)
minish_softmax(signal, dim, keepdim, temperature) ==
    NegResult(maxish_softmax(TNeg(signal), temperature, dim, keepdim))

maxish_logsumexp(signal, dim, keepdim, temperature) ==
    LET l == Logsumexp(TScale(temperature, signal), dim, keepdim)
    IN  IF l.status = "raise" THEN l
        ELSE Return(TUnscale(l.value, temperature))

\* the helper calls maxish_logsumexp positionally, in the order
\* (signal, temperature, dim, keepdim)
minish_logsumexp(signal, dim, keepdim, temperature) ==
    NegResult(maxish_logsumexp(TNeg(signal), temperature, dim, keepdim))

\* the match statement has three cases and no default: any other tag
\* falls off the end of the function, which returns None
maxish(signal, dim, keepdim, approx_method, temperature) ==
    CASE approx_method = "true" -> TorchMax(signal, dim, keepdim)
      [] approx_method = "softmax" -> maxish_softmax(signal, dim, keepdim, temperature)
      [] approx_method = "logsumexp" -> maxish_logsumexp(signal, dim, keepdim, temperature)
      [] OTHER -> Return(None)

\* minish without the outer negation
minish_unnegated(signal, dim, keepdim, approx_method, temperature) ==
    maxish(TNeg(signal), dim, keepdim, approx_method, temperature)

minish(signal, dim, keepdim, approx_method, temperature) ==
    NegResult(maxish(TNeg(signal), dim, keepdim, approx_method, temperature))

\* ------------------------------------------------------ inputs of a call
\* the elements of a signal: the small integers and +-3e38
Values == {Rat(v, 1) : v \in -MaxVal..MaxVal} \cup {Huge(1, 1), Huge(-1, 1)}

Signals == {Tensor(<<Len(data)>>, data) : data \in UNION {[1..k -> Values] : k \in 1..MaxLen}}

Dims == {PyInt(-1), PyInt(0), PyInt(1)}

Keepdims == {PyBool(TRUE), PyBool(FALSE)}

Temperatures == {PyFloat(k) : k \in 1..MaxTemp}

Supported == {"true", "softmax", "logsumexp"}

Methods == Supported \cup {"mean", ""}

HelperNames == {"maxish_softmax", "minish_softmax", "maxish_logsumexp", "minish_logsumexp"}

ExtremumCalls ==
    [fn : {"maxish", "minish"}, signal : Signals, dim : Dims, keepdim : Keepdims,
     approx_method : Methods, temperature : Temperatures]
    \cup
    [fn : HelperNames, signal : Signals, dim : Dims, keepdim : Keepdims,
     temperature : Temperatures]

InitExtremum ==
    /\ pc = "ready"
    /\ call \in ExtremumCalls
    /\ result = None
    /\ log = <<>>

Finish(r) ==
    /\ pc' = "done"
    /\ result' = r
    /\ UNCHANGED <<call, log>>

CallMaxish ==
    /\ pc = "ready" /\ call.fn = "maxish"
    /\ Finish(maxish(call.signal, call.dim, call.keepdim, call.approx_method, call.temperature))

CallMinish ==
    /\ pc = "ready" /\ call.fn = "minish"
    /\ Finish(minish(call.signal, call.dim, call.keepdim, call.approx_method, call.temperature))

CallMaxishSoftmax ==
    /\ pc = "ready" /\ call.fn = "maxish_softmax"
    /\ Finish(maxish_softmax(call.signal, call.dim, call.keepdim, call.temperature))

CallMinishSoftmax ==
    /\ pc = "ready" /\ call.fn = "minish_softmax"
    /\ Finish(minish_softmax(call.signal, call.dim, call.keepdim, call.temperature))

CallMaxishLogsumexp ==
    /\ pc = "ready" /\ call.fn = "maxish_logsumexp"
    /\ Finish(maxish_logsumexp(call.signal, call.dim, call.keepdim, call.temperature))

CallMinishLogsumexp ==
    /\ pc = "ready" /\ call.fn = "minish_logsumexp"
    /\ Finish(minish_logsumexp(call.signal, call.dim, call.keepdim, call.temperature))

NextExtremum ==
    \/ CallMaxish
    \/ CallMinish
    \/ CallMaxishSoftmax
    \/ CallMinishSoftmax
    \/ CallMaxishLogsumexp
    \/ CallMinishLogsumexp

SpecExtremum == InitExtremum /\ [][NextExtremum]_vars

\* ------------------------------------------------ extremum family: claims
Elements(t) == {t.data[i] : i \in 1..Len(t.data)}

\* the greatest and the least element of a signal, by their definition
TrueMax(t) == CHOOSE m \in Elements(t) : \A e \in Elements(t) : FLeq(e, m)

TrueMin(t) == CHOOSE m \in Elements(t) : \A e \in Elements(t) : FLeq(m, e)

\* 2^e for an integer e, as a rational
Exp2(e) == IF e >= 0 THEN Rat(Pow2(e), 1) ELSE Rat(1, Pow2(-e))

Done(fn) == pc = "done" /\ call.fn = fn

\* C1: for each of the three approx_method tags, minish(x, dim, keepdim,
\* approx_method, temperature) is what negating maxish(-x, dim, keepdim,
\* approx_method, temperature) gives: the same value when maxish returns
\* one, the same exception when it raises.
C1_MirrorIdentity ==
    (Done("minish") /\ call.approx_method \in Supported) =>
        result = NegResult(maxish(TNeg(call.signal), call.dim, call.keepdim,
                                  call.approx_method, call.temperature))

C1_Witness ==
    /\ Done("minish")
    /\ call.approx_method = "logsumexp"
    /\ Len(call.signal.data) = 3
    /\ call.keepdim.v = 0
    /\ result.status = "return"
    /\ result.value.data[1].neg = 1

\* C2: minish_softmax(signal, dim, keepdim, temperature) is the negation of
\* maxish_softmax(-signal, dim, keepdim, temperature) and minish_logsumexp
\* the negation of maxish_logsumexp(-signal, dim, keepdim, temperature),
\* each parameter reaching the maxish helper under its own name.
C2_HelperMirror ==
    /\ Done("minish_softmax") =>
        result = NegResult(maxish_softmax(TNeg(call.signal), call.dim, call.keepdim,
                                          call.temperature))
    /\ Done("minish_logsumexp") =>
        result = NegResult(maxish_logsumexp(TNeg(call.signal), call.dim, call.keepdim,
                                            call.temperature))

\* C3: with an approx_method outside the three tags, maxish and minish both
\* end by raising; neither returns a value.
C3_UnsupportedRaises ==
    ((Done("maxish") \/ Done("minish")) /\ call.approx_method \notin Supported) =>
        result.status = "raise"

\* maxish's result r against the signal x of N elements with greatest
\* element M: "true" gives M, "softmax" a number between the least element
\* and M, "logsumexp" a number between M and M + log(N)/temperature.  With
\* temperature = t * ln 2 and r = log2(S)/t the last reads
\* 2^(t*M) <= S <= N * 2^(t*M); where M is +-3e38, log(N)/temperature is
\* below its last place and the bounds read M <= r <= M.  nan and +-inf
\* satisfy none of them.
WithinBounds ==
    LET x == call.signal
        M == TrueMax(x)
        N == Len(x.data)
        t == call.temperature.v
        r == result.value.data[1]
        S == Rat(r.n, r.d)
    IN  CASE call.approx_method = "true" -> r = M
          [] call.approx_method = "softmax" ->
                r.kind \in {"rat", "huge"} /\ FLeq(TrueMin(x), r) /\ FLeq(r, M)
          [] call.approx_method = "logsumexp" ->
                \/ /\ r.kind = "log2" /\ r.neg = 0 /\ r.t = t
                   /\ M.kind = "rat"
                   /\ RLeq(Exp2(t * M.n), S)
                   /\ RLeq(S, RMul(Rat(N, 1), Exp2(t * M.n)))
                \/ /\ r.kind = "huge" /\ M.kind = "huge"
                   /\ FLeq(M, r) /\ FLeq(r, M)

\* temperature * signal has an element beyond the float32 range
ProductOverflows ==
    \E i \in 1..Len(call.signal.data) :
        RScale(call.temperature, call.signal.data[i]).kind = "inf"

\* C9: for every finite signal and every temperature > 0, along the reduced
\* dimension maxish "softmax" <= max <= maxish "logsumexp", the softmax
\* result a convex combination of the elements and the logsumexp result at
\* most log(N)/temperature above the max; maxish "true" is the max.
C9_OneDirectionalBounds ==
    (Done("maxish") /\ call.approx_method \in Supported /\ result.status = "return") =>
        WithinBounds

\* the bounds hold of every call whose product temperature * signal stays
\* within the float32 range
BoundsWithoutOverflow ==
    (/\ Done("maxish") /\ call.approx_method \in Supported /\ result.status = "return"
     /\ (call.approx_method = "true" \/ ~ProductOverflows)) =>
        WithinBounds

\* a softmax result strictly below the maximum
SoftmaxBelowMax ==
    /\ Done("maxish")
    /\ call.approx_method = "softmax"
    /\ result.status = "return"
    /\ Len(call.signal.data) = 3
    /\ result.value.data[1].kind = "rat"
    /\ result.value.data[1] # TrueMax(call.signal)
    /\ FLeq(result.value.data[1], TrueMax(call.signal))

\* a softmax over an overflowed product
SoftmaxIsNaN ==
    /\ Done("maxish")
    /\ call.approx_method = "softmax"
    /\ result.status = "return"
    /\ result.value.data[1].kind = "nan"

\* no call of the model leaves the numbers the model represents
AllRepresentable ==
    (pc = "done" /\ result.status = "return" /\ IsTensor(result.value)) =>
        \A i \in 1..Len(result.value.data) : result.value.data[i].kind # "exp"

\* ------------------------------------------------------- formula trees
\* A formula node is known by its class name; And and Or nodes carry
\* subformula1 and subformula2, every other node is opaque and callable.
Predicate(name) == [cls |-> "Predicate", name |-> name]

Connective(cls, f1, f2) == [cls |-> cls, subformula1 |-> f1, subformula2 |-> f2]

\* a signal is an opaque tensor or a python tuple of signals
Signal(name) == [ty |-> "Tensor", name |-> name]

Tuple(items) == [ty |-> "tuple", items |-> items]

\* isinstance(signal, tuple)
IsTuple(signal) == signal.ty = "tuple"

\* signal[i] with the two indices exchanged
Item_exchanged(signal, i) ==
    IF 1 - i < Len(signal.items) THEN Return(signal.items[2 - i]) ELSE Raise("IndexError")

\* signal[i], i counted from 0
Item(signal, i) ==
    IF i < Len(signal.items) THEN Return(signal.items[i + 1]) ELSE Raise("IndexError")

\* what a separator call did: it returned a tensor or raised, after the
\* evaluations `calls` of formula nodes, in order
Returned(value, calls) == [status |-> "return", value |-> value, calls |-> calls]

Raised(exc, calls) == [status |-> "raise", exc |-> exc, calls |-> calls]

\* formula(signal, **kwargs): the external node's robustness tensor, known
\* only by the node and the arguments it was called with
Evaluation(formula, signal, kwargs) ==
    [formula |-> formula, signal |-> signal, kwargs |-> kwargs]

\* the base case calling formula(signal) without the keywords
BaseCase_nokwargs(formula, signal, kwargs) ==
    Returned(<<Evaluation(formula, signal, [k \in {} |-> 0])>>,
             <<Evaluation(formula, signal, [k \in {} |-> 0])>>)

\* formula(signal, **kwargs).unsqueeze(-1): one channel on a new trailing axis
BaseCase(formula, signal, kwargs) ==
    Returned(<<Evaluation(formula, signal, kwargs)>>,
             <<Evaluation(formula, signal, kwargs)>>)

\* torch.cat([r1, r2], dim=-1) of two recursive calls made in this order:
\* the second is not made when the first raises
Cat(r1, r2) ==
    IF r1.status = "raise" THEN r1
    ELSE IF r2.status = "raise" THEN Raised(r2.exc, r1.calls \o r2.calls)
    ELSE Returned(r1.value \o r2.value, r1.calls \o r2.calls)

\* separate_and descending into every node that has subformulas
RECURSIVE separate_and_any(_, _, _)
separate_and_any(formula, signal, kwargs) ==
    IF formula.cls \notin {"And", "Or"} THEN BaseCase(formula, signal, kwargs)
    ELSE IF IsTuple(signal)
    THEN Cat(IF Item(signal, 0).status = "raise" THEN Raised(Item(signal, 0).exc, <<>>)
             ELSE separate_and_any(formula.subformula1, Item(signal, 0).value, kwargs),
             IF Item(signal, 1).status = "raise" THEN Raised(Item(signal, 1).exc, <<>>)
             ELSE separate_and_any(formula.subformula2, Item(signal, 1).value, kwargs))
    ELSE Cat(separate_and_any(formula.subformula1, signal, kwargs),
             separate_and_any(formula.subformula2, signal, kwargs))

\* separate_and without the tuple branch: every subformula gets the signal whole
RECURSIVE separate_and_shared(_, _, _)
separate_and_shared(formula, signal, kwargs) ==
    IF formula.cls # "And" THEN BaseCase(formula, signal, kwargs)
    ELSE Cat(separate_and_shared(formula.subformula1, signal, kwargs),
             separate_and_shared(formula.subformula2, signal, kwargs))

RECURSIVE separate_and(_, _, _)
separate_and(formula, signal, kwargs) ==
    IF formula.cls # "And" THEN BaseCase(formula, signal, kwargs)
    ELSE IF IsTuple(signal)
    THEN Cat(IF Item(signal, 0).status = "raise" THEN Raised(Item(signal, 0).exc, <<>>)
             ELSE separate_and(formula.subformula1, Item(signal, 0).value, kwargs),
             IF Item(signal, 1).status = "raise" THEN Raised(Item(signal, 1).exc, <<>>)
             ELSE separate_and(formula.subformula2, Item(signal, 1).value, kwargs))
    ELSE Cat(separate_and(formula.subformula1, signal, kwargs),
             separate_and(formula.subformula2, signal, kwargs))

\* separate_or testing for the class name of separate_and
RECURSIVE separate_or_and(_, _, _)
separate_or_and(formula, signal, kwargs) ==
    IF formula.cls # "And" THEN BaseCase(formula, signal, kwargs)
    ELSE IF IsTuple(signal)
    THEN Cat(IF Item(signal, 0).status = "raise" THEN Raised(Item(signal, 0).exc, <<>>)
             ELSE separate_or_and(formula.subformula1, Item(signal, 0).value, kwargs),
             IF Item(signal, 1).status = "raise" THEN Raised(Item(signal, 1).exc, <<>>)
             ELSE separate_or_and(formula.subformula2, Item(signal, 1).value, kwargs))
    ELSE Cat(separate_or_and(formula.subformula1, signal, kwargs),
             separate_or_and(formula.subformula2, signal, kwargs))

RECURSIVE separate_or(_, _, _)
separate_or(formula, signal, kwargs) ==
    IF formula.cls # "Or" THEN BaseCase(formula, signal, kwargs)
    ELSE IF IsTuple(signal)
    THEN Cat(IF Item(signal, 0).status = "raise" THEN Raised(Item(signal, 0).exc, <<>>)
             ELSE separate_or(formula.subformula1, Item(signal, 0).value, kwargs),
             IF Item(signal, 1).status = "raise" THEN Raised(Item(signal, 1).exc, <<>>)
             ELSE separate_or(formula.subformula2, Item(signal, 1).value, kwargs))
    ELSE Cat(separate_or(formula.subformula1, signal, kwargs),
             separate_or(formula.subformula2, signal, kwargs))

\* ------------------------------------------------- inputs of a separator
PredicateNames == {"p", "q"}

\* the formula trees with exactly n opaque leaves
RECURSIVE FormulasOfSize(_)
FormulasOfSize(n) ==
    IF n = 1 THEN {Predicate(name) : name \in PredicateNames}
    ELSE UNION {{Connective(cls, f1, f2) :
                    cls \in {"And", "Or"},
                    f1 \in FormulasOfSize(k),
                    f2 \in FormulasOfSize(n - k)} : k \in 1..(n - 1)}

Formulas == UNION {FormulasOfSize(n) : n \in 1..MaxLeaves}

SignalNames == {"s0", "s1"}

\* the sequences of len signals whose sizes add up to n
RECURSIVE SignalsOfSize(_), ItemsOfSize(_, _)
ItemsOfSize(n, len) ==
    IF len = 0 THEN (IF n = 0 THEN {<<>>} ELSE {})
    ELSE UNION {{<<first>> \o rest : first \in SignalsOfSize(k),
                                     rest \in ItemsOfSize(n - k, len - 1)} : k \in 1..n}

\* the signals of size n: a tensor has size 1, a tuple of at most MaxTuple
\* items has size 2 + the sizes of its items
SignalsOfSize(n) ==
    IF n = 1 THEN {Signal(name) : name \in SignalNames}
    ELSE UNION {{Tuple(items) : items \in ItemsOfSize(n - 2, len)} : len \in 0..MaxTuple}

SeparatorSignals == UNION {SignalsOfSize(n) : n \in 1..MaxSignal}

Kwargs ==
    { [k \in {} |-> 0],
      [dim |-> 1, keepdim |-> 0],
      [approx_method |-> "softmax", temperature |-> 2] }

SeparatorCalls ==
    [fn : {"separate_and", "separate_or"}, formula : Formulas,
     signal : SeparatorSignals, kwargs : Kwargs]

InitSeparator ==
    /\ pc = "ready"
    /\ call \in SeparatorCalls
    /\ result = None
    /\ log = <<>>

FinishSeparator(r) ==
    /\ pc' = "done"
    /\ result' = IF r.status = "return" THEN Return(r.value) ELSE Raise(r.exc)
    /\ log' = r.calls
    /\ UNCHANGED call

CallSeparateAnd ==
    /\ pc = "ready" /\ call.fn = "separate_and"
    /\ FinishSeparator(separate_and(call.formula, call.signal, call.kwargs))

CallSeparateOr ==
    /\ pc = "ready" /\ call.fn = "separate_or"
    /\ FinishSeparator(separate_or(call.formula, call.signal, call.kwargs))

NextSeparator ==
    \/ CallSeparateAnd
    \/ CallSeparateOr

SpecSeparator == InitSeparator /\ [][NextSeparator]_vars

\* ------------------------------------------------------ separator: claims
\* the connective a separator descends
ConnectiveOf(fn) == IF fn = "separate_and" THEN "And" ELSE "Or"

DoneSeparator == pc = "done" /\ call.fn \in {"separate_and", "separate_or"}

RECURSIVE Depth(_)
Depth(f) ==
    IF f.cls \in {"And", "Or"}
    THEN 1 + (IF Depth(f.subformula1) >= Depth(f.subformula2)
              THEN Depth(f.subformula1) ELSE Depth(f.subformula2))
    ELSE 0

\* paths from a root: 1 is subformula1, 2 is subformula2
Paths(n) == UNION {[1..k -> {1, 2}] : k \in 0..n}

Child(f, step) == IF step = 1 THEN f.subformula1 ELSE f.subformula2

\* path p leaves the root f through nodes of class conn only
RECURSIVE Descends(_, _, _)
Descends(f, p, conn) ==
    \/ p = <<>>
    \/ /\ f.cls = conn
       /\ Descends(Child(f, Head(p)), Tail(p), conn)

RECURSIVE NodeAt(_, _)
NodeAt(f, p) == IF p = <<>> THEN f ELSE NodeAt(Child(f, Head(p)), Tail(p))

\* the maximal subtrees that are not of class conn, reached through conn nodes only
Frontier(f, conn) ==
    {p \in Paths(Depth(f)) : Descends(f, p, conn) /\ NodeAt(f, p).cls # conn}

\* left-to-right depth-first order of two paths neither of which extends the other
Before(p, q) ==
    \E i \in 1..Len(p) :
        /\ i <= Len(q)
        /\ \A j \in 1..(i - 1) : p[j] = q[j]
        /\ p[i] < q[i]

Rank(p, F) == 1 + Cardinality({q \in F : Before(q, p)})

\* what a path selects where the tuple has no such item
NoSignal == [ty |-> "missing"]

\* the signal a path selects: a step indexes the signal where it is a tuple
\* and keeps it whole where it is not
RECURSIVE Select(_, _)
Select(signal, p) ==
    IF p = <<>> THEN signal
    ELSE IF signal = NoSignal THEN NoSignal
    ELSE IF IsTuple(signal)
    THEN Select(IF Head(p) <= Len(signal.items) THEN signal.items[Head(p)] ELSE NoSignal,
                Tail(p))
    ELSE Select(signal, Tail(p))

\* the signals a signal is made of, itself included
RECURSIVE Parts(_)
Parts(signal) ==
    {signal} \cup (IF IsTuple(signal)
                   THEN UNION {Parts(signal.items[i]) : i \in 1..Len(signal.items)}
                   ELSE {})

\* C4: when a separator returns, the trailing axis holds one channel per
\* maximal non-CONNECTIVE subtree reached through CONNECTIVE nodes only, in
\* left-to-right depth-first order: k such subtrees give exactly k channels,
\* and a subtree of the other connective is one channel.
C4_ChannelsAreFrontier ==
    (DoneSeparator /\ result.status = "return") =>
        LET F == Frontier(call.formula, ConnectiveOf(call.fn))
        IN  /\ Len(result.value) = Cardinality(F)
            /\ \A p \in F : result.value[Rank(p, F)].formula = NodeAt(call.formula, p)

\* And(p, And(q, Or(..))) is not within three leaves; And(Or(p, q), p) and
\* And(p, And(q, p)) are
C4_Witness ==
    /\ DoneSeparator /\ call.fn = "separate_and"
    /\ call.formula = Connective("And", Predicate("p"),
                                 Connective("And", Predicate("q"), Predicate("p")))
    /\ result.status = "return"
    /\ Len(result.value) = 3

\* C5: on a CONNECTIVE root with a two-element tuple (s0, s1), the channels
\* under subformula1 are those of the separator on (subformula1, s0), the
\* channels under subformula2 those on (subformula2, s1); no channel of the
\* first group is evaluated on a part of the tuple outside s0, none of the
\* second outside s1, and the call with (s1, s0) gives the exchanged routing.
C5_PairedRouting ==
    (/\ DoneSeparator
     /\ call.formula.cls = ConnectiveOf(call.fn)
     /\ IsTuple(call.signal)
     /\ Len(call.signal.items) = 2) =>
        LET conn == ConnectiveOf(call.fn)
            f1 == call.formula.subformula1
            f2 == call.formula.subformula2
            s0 == call.signal.items[1]
            s1 == call.signal.items[2]
            Sep(f, s) == IF call.fn = "separate_and" THEN separate_and(f, s, call.kwargs)
                         ELSE separate_or(f, s, call.kwargs)
            k1 == Cardinality(Frontier(f1, conn))
        IN  /\ result.status = "return" =>
                /\ Sep(f1, s0).status = "return" /\ Sep(f2, s1).status = "return"
                /\ result.value = Sep(f1, s0).value \o Sep(f2, s1).value
                /\ \A i \in 1..Len(result.value) :
                      result.value[i].signal \in (IF i <= k1 THEN Parts(s0) ELSE Parts(s1))
            /\ result.status = "raise" =>
                (Sep(f1, s0).status = "raise" \/ Sep(f2, s1).status = "raise")
            /\ Sep(call.formula, Tuple(<<s1, s0>>)) = Cat(Sep(f1, s1), Sep(f2, s0))

C5_Witness ==
    /\ DoneSeparator /\ call.fn = "separate_or"
    /\ call.formula = Connective("Or", Connective("Or", Predicate("p"), Predicate("q")),
                                 Predicate("p"))
    /\ call.signal = Tuple(<<Signal("s0"), Signal("s1")>>)
    /\ result.status = "return"
    /\ result.value[2].signal = Signal("s0")
    /\ result.value[3].signal = Signal("s1")

\* C6: a separator called on a root that is not its CONNECTIVE evaluates the
\* root once, on the signal as given, and returns that evaluation as the
\* only channel; the root's subformulas are not separated.
C6_BaseCaseRoot ==
    (DoneSeparator /\ call.formula.cls # ConnectiveOf(call.fn)) =>
        /\ result = Return(<<Evaluation(call.formula, call.signal, call.kwargs)>>)
        /\ log = <<Evaluation(call.formula, call.signal, call.kwargs)>>

C6_Witness ==
    /\ DoneSeparator /\ call.fn = "separate_and"
    /\ call.formula.cls = "Or"
    /\ call.formula.subformula1.cls = "And"
    /\ IsTuple(call.signal)
    /\ result.status = "return"
    /\ Len(log) = 1

\* C7: every evaluation a separator makes, and every channel it returns,
\* carries exactly the keywords of the root call.
C7_KwargsUnchanged ==
    DoneSeparator =>
        /\ \A i \in 1..Len(log) : log[i].kwargs = call.kwargs
        /\ result.status = "return" =>
              \A i \in 1..Len(result.value) : result.value[i].kwargs = call.kwargs

C7_Witness ==
    /\ DoneSeparator
    /\ DOMAIN call.kwargs = {"approx_method", "temperature"}
    /\ result.status = "return"
    /\ Len(log) = 3

\* C8: a separator called on a CONNECTIVE root with a tuple whose length is
\* not two raises; it returns no tensor.
C8_TupleLengthRaises ==
    (/\ DoneSeparator
     /\ call.formula.cls = ConnectiveOf(call.fn)
     /\ IsTuple(call.signal)
     /\ Len(call.signal.items) # 2) =>
        result.status = "raise"

\* C10: when a separator returns, each maximal non-CONNECTIVE subtree is
\* evaluated exactly once, in order, on the signal selected by its
\* subformula1/subformula2 path: each step through a CONNECTIVE node indexes
\* the incoming signal by 0 or 1 where it is a tuple and shares it where it
\* is not, and the subtree itself receives its signal whole.
C10_SignalFollowsPath ==
    (DoneSeparator /\ result.status = "return") =>
        LET F == Frontier(call.formula, ConnectiveOf(call.fn))
        IN  /\ Len(log) = Cardinality(F)
            /\ result.value = log
            /\ \A p \in F :
                  log[Rank(p, F)] = Evaluation(NodeAt(call.formula, p),
                                               Select(call.signal, p), call.kwargs)

\* a nested tuple split twice
C10_Witness ==
    /\ DoneSeparator /\ call.fn = "separate_and"
    /\ call.formula = Connective("And", Connective("And", Predicate("p"), Predicate("q")),
                                 Predicate("q"))
    /\ call.signal = Tuple(<<Tuple(<<Signal("s0"), Signal("s1")>>), Signal("s0")>>)
    /\ result.status = "return"
    /\ log[1].signal = Signal("s0")
    /\ log[2].signal = Signal("s1")
    /\ log[3].signal = Signal("s0")

====
